---------------------------- MODULE Spec2Model ----------------------------
(***************************************************************************)
(* pip-review: src/pip_review/__main__.py                                  *)
(*                                                                         *)
(* One run of the command line program: parse_args, the conflicting-flags  *)
(* check, get_outdated_packages, the report loop of main with the          *)
(* InteractiveAsker, update_packages and the top-level KeyboardInterrupt   *)
(* handler.                                                                *)
(*                                                                         *)
(* Strings are sequences of chunks (TLA+ strings); the characters the code *)
(* inspects (leading dashes, blanks and letters of a typed answer) are     *)
(* chunks of their own, so that startswith, strip, lower, format and join  *)
(* are computed and not assumed.  The output of the list subprocess is     *)
(* represented by the list of package records it decodes to.               *)
(***************************************************************************)
EXTENDS Integers, Sequences, FiniteSets, TLC

(* ------------------------------ bounds -------------------------------- *)
MaxArgs == 3
MaxPkgs == 3
MaxReads == 4

(* ------------------------- strings and helpers ------------------------ *)
Range(s) == {s[i] : i \in 1..Len(s)}

SeqsUpTo(S, n) == UNION {[1..k -> S] : k \in 0..n}

IsInjective(s) == \A i, j \in 1..Len(s) : s[i] = s[j] => i = j

\* t occurs in s as a block of adjacent elements
IsInfix(t, s) ==
    \E k \in 0..(Len(s) - Len(t)) : SubSeq(s, k + 1, k + Len(t)) = t

\* str.startswith(prefix)
StartsWith(s, prefix) ==
    /\ Len(s) >= Len(prefix)
    /\ SubSeq(s, 1, Len(prefix)) = prefix

\* sep.join(ss)
RECURSIVE Join(_, _)
Join(sep, ss) ==
    IF ss = <<>> THEN <<>>
    ELSE IF Len(ss) = 1 THEN Head(ss)
    ELSE Head(ss) \o sep \o Join(sep, Tail(ss))

Whitespace == {" ", "\t"}

\* str.strip()
RECURSIVE LStrip(_)
LStrip(s) ==
    IF s # <<>> /\ Head(s) \in Whitespace THEN LStrip(Tail(s)) ELSE s

RECURSIVE RStrip(_)
RStrip(s) ==
    IF s # <<>> /\ s[Len(s)] \in Whitespace
    THEN RStrip(SubSeq(s, 1, Len(s) - 1)) ELSE s

Strip(s) == LStrip(RStrip(s))

LowerChar(c) ==
    CASE c = "Y" -> "y"
      [] c = "N" -> "n"
      [] c = "A" -> "a"
      [] c = "Q" -> "q"
      [] c = "X" -> "x"
      [] OTHER -> c

\* str.lower()
Lower(s) == [i \in 1..Len(s) |-> LowerChar(s[i])]

(* ---------------------------- command line ---------------------------- *)
OptVerbose == {<<"-", "-", "verbose">>, <<"-", "v">>}
OptRaw == {<<"-", "-", "raw">>, <<"-", "r">>}
OptInteractive == {<<"-", "-", "interactive">>, <<"-", "i">>}
OptAuto == {<<"-", "-", "auto">>, <<"-", "a">>}

KnownOptions == OptVerbose \cup OptRaw \cup OptInteractive \cup OptAuto

TokContinueOnFail == <<"-", "-", "continue-on-fail">>
TokTimeout == <<"-", "-", "timeout">>
TokThirty == <<"30">>

\* the tokens a command line is drawn from
ArgTokens ==
    { <<"-", "-", "raw">>, <<"-", "i">>, <<"-", "-", "auto">>,
      TokContinueOnFail, TokTimeout, TokThirty }

HasOption(argv, opt) == \E i \in 1..Len(argv) : argv[i] \in opt

\* ArgumentParser.parse_known_args with the four store_true options
parse_known_args(argv) ==
    [ parsed  |-> [ verbose     |-> HasOption(argv, OptVerbose),
                    raw         |-> HasOption(argv, OptRaw),
                    interactive |-> HasOption(argv, OptInteractive),
                    auto        |-> HasOption(argv, OptAuto) ],
      unknown |-> SelectSeq(argv, LAMBDA t : t \notin KnownOptions) ]

\* arg.startswith(("-", "--"))
IsForwarded(arg) ==
    StartsWith(arg, <<"-">>) \/ StartsWith(arg, <<"-", "-">>)

parse_args(argv) ==
    LET known == parse_known_args(argv)
    IN  [ parsed  |-> known.parsed,
          unknown |-> SelectSeq(known.unknown, IsForwarded) ]

(* ----------------------------- environment ---------------------------- *)
sys_executable == <<"python">>

\* (sys.version_info[:2], pip.__version__) of the interpreter running main
Envs ==
    { [version_info |-> <<2, 6>>, pip_version |-> <<8, 1>>],
      [version_info |-> <<2, 7>>, pip_version |-> <<9, 0>>],
      [version_info |-> <<3, 3>>, pip_version |-> <<22, 2>>] }

pip_cmd(version_info) ==
    IF version_info[1] > 2 \/ version_info[2] > 6
    THEN <<sys_executable, <<"-", "m">>, <<"pip">>>>
    ELSE << <<"pip">> >>

\* parse_version(pip.__version__) > parse_version('9.0')
JsonFormat(pip_version) ==
    \/ pip_version[1] > 9
    \/ pip_version[1] = 9 /\ pip_version[2] > 0

(* ------------------------------ packages ------------------------------ *)
Packages ==
    { [name |-> "badpackage", version |-> "0.1", latest_version |-> "0.2"],
      [name |-> "setuptools", version |-> "65.1.1", latest_version |-> "65.3.0"],
      [name |-> "wheel", version |-> "0.37", latest_version |-> "0.38"] }

\* what `pip list --outdated` can report: each installed package once
OutdatedLists == {s \in SeqsUpTo(Packages, MaxPkgs) : IsInjective(s)}

ReturnCodes == {-1, 0, 1}

\* '{0}=={1}'.format(pkg['name'], pkg['latest_version'])
RawLine(pkg) == <<pkg.name, "==", pkg.latest_version>>

\* '{0}=={1} is available (you have {2})'.format(...)
NoticeLine(pkg) ==
    <<pkg.name, "==", pkg.latest_version, " is available (you have ",
      pkg.version, ")">>

UpToDateLine == <<"Everything up-to-date">>

\* the command get_outdated_packages hands to the shell
ListCommand(unknown, pip_version) ==
    LET base == << <<"pip">>, <<"list">>, <<"-", "-", "outdated">> >> \o unknown
        command == IF JsonFormat(pip_version)
                   THEN base \o << <<"-", "-", "disable-pip-version-check">>,
                                   <<"-", "-", "format=json">> >>
                   ELSE base
    IN  Join(<<" ">>, command)

\* the argument vector update_packages hands to subprocess.call
InstallCommand(version_info, packages) ==
    pip_cmd(version_info) \o << <<"install">> >>
        \o [i \in 1..Len(packages) |-> RawLine(packages[i])]

(* --------------------------- decisions of main ------------------------ *)
ConflictBroken(args) == args.raw /\ args.interactive /\ ~args.auto

\* if args.raw and args.interactive
Conflict(args) == args.raw /\ args.interactive

CheckOutputRaisesBroken(retcode) == FALSE

\* check_output: a non-zero return code raises CalledProcessError
CheckOutputRaises(retcode) == retcode # 0

ModeBroken(args) ==
    IF args.raw THEN "raw"
    ELSE IF args.interactive THEN "interactive"
    ELSE IF args.auto THEN "auto"
    ELSE "plain"

\* the branch the report loop takes for every package
Mode(args) ==
    IF args.raw THEN "raw"
    ELSE IF args.auto THEN "auto"
    ELSE IF args.interactive THEN "interactive"
    ELSE "plain"

QueuesBroken(answer) == answer \in {"y", "a", "q"}

\* if answer in ['y', 'a']
Queues(answer) == answer \in {"y", "a"}

ShowUpToDateBroken(all_ok, raw) == all_ok

\* if all_ok and not args.raw
ShowUpToDate(all_ok, raw) == all_ok /\ ~raw

(* -------------------------- InteractiveAsker -------------------------- *)
NoAnswer == "none"

ValidAnswers == {"y", "n", "a", "q"}

\* what the user may type at one prompt
UserInputs ==
    { <<" ", "Y", " ">>, <<"n">>, <<"A">>, <<"q", " ">>, <<"x">>, <<>> }

\* answer.strip().lower(), as one chunk when it is a single letter
Normalise(raw) ==
    LET s == Lower(Strip(raw))
    IN  IF Len(s) = 1 THEN s[1] ELSE IF s = <<>> THEN "" ELSE "?"

NextCachedBroken(cached, answer) ==
    IF answer \in {"q", "a", "y"} THEN answer ELSE cached

\* if answer in ['q', 'a']: self.cached_answer = answer
NextCached(cached, answer) ==
    IF answer \in {"q", "a"} THEN answer ELSE cached

(* -------------------------------- state ------------------------------- *)
VARIABLES
    argv,            \* sys.argv[1:]
    env,             \* interpreter and pip version
    pc,              \* position of the run
    args,            \* parsed flags
    unknown,         \* forwarded tokens
    popen_calls,     \* subprocesses started so far, in order
    list_rc,         \* <<>> or <<return code of the list subprocess>>
    install_rc,      \* <<>> or <<return code of the install subprocess>>
    outdated,        \* result of get_outdated_packages
    idx,             \* position of the report loop in outdated
    packages,        \* queue of packages to install
    all_ok,
    log,             \* lines emitted through logger.info
    cached_answer,   \* InteractiveAsker.cached_answer
    returned,        \* values returned by ask, in call order
    reads,           \* number of input() calls
    last_input,      \* text of the latest input() result
    typed,           \* valid answers typed, with the package asked about
    prompted,        \* indices of packages an input() was issued for
    error,           \* exception that ended the run
    exit_code        \* <<>> while running, <<status>> after exit

vars == <<argv, env, pc, args, unknown, popen_calls, list_rc, install_rc,
          outdated, idx, packages, all_ok, log, cached_answer, returned,
          reads, last_input, typed, prompted, error, exit_code>>

NoArgs == [verbose |-> FALSE, raw |-> FALSE, interactive |-> FALSE, auto |-> FALSE]

Init ==
    /\ argv \in SeqsUpTo(ArgTokens, MaxArgs)
    /\ env \in Envs
    /\ pc = "start"
    /\ args = NoArgs
    /\ unknown = <<>>
    /\ popen_calls = <<>>
    /\ list_rc = <<>>
    /\ install_rc = <<>>
    /\ outdated = <<>>
    /\ idx = 1
    /\ packages = <<>>
    /\ all_ok = TRUE
    /\ log = <<>>
    /\ cached_answer = NoAnswer
    /\ returned = <<>>
    /\ reads = 0
    /\ last_input = <<>>
    /\ typed = <<>>
    /\ prompted = {}
    /\ error = "none"
    /\ exit_code = <<>>

(* ------------------------------- actions ------------------------------ *)
\* main, up to the conflicting-flags check
ParseArgs ==
    /\ pc = "start"
    /\ LET r == parse_args(argv)
       IN  /\ args' = r.parsed
           /\ unknown' = r.unknown
           /\ IF Conflict(r.parsed)
              THEN /\ pc' = "error"
                   /\ error' = "SystemExit"
                   /\ exit_code' = <<1>>
              ELSE /\ pc' = "parsed"
                   /\ UNCHANGED <<error, exit_code>>
    /\ UNCHANGED <<argv, env, popen_calls, list_rc, install_rc, outdated, idx,
                   packages, all_ok, log, cached_answer, returned, reads,
                   last_input, typed, prompted>>

\* get_outdated_packages builds the command and starts the subprocess
StartList ==
    /\ pc = "parsed"
    /\ popen_calls' = Append(popen_calls,
           [kind |-> "list", shell |-> TRUE,
            command |-> ListCommand(unknown, env.pip_version)])
    /\ pc' = "listing"
    /\ UNCHANGED <<argv, env, args, unknown, list_rc, install_rc, outdated,
                   idx, packages, all_ok, log, cached_answer, returned, reads,
                   last_input, typed, prompted, error, exit_code>>

\* the list subprocess exits; check_output returns its output or raises
ListExit ==
    /\ pc = "listing"
    /\ \E rc \in ReturnCodes, out \in OutdatedLists :
          /\ list_rc' = <<rc>>
          /\ IF CheckOutputRaises(rc)
             THEN /\ pc' = "error"
                  /\ error' = "CalledProcessError"
                  /\ exit_code' = <<1>>
                  /\ UNCHANGED outdated
             ELSE /\ pc' = "loop"
                  /\ outdated' = out
                  /\ UNCHANGED <<error, exit_code>>
    /\ UNCHANGED <<argv, env, args, unknown, popen_calls, install_rc, idx,
                   packages, all_ok, log, cached_answer, returned, reads,
                   last_input, typed, prompted>>

\* one iteration of the report loop, up to a blocking input()
Report ==
    /\ pc = "loop"
    /\ idx <= Len(outdated)
    /\ LET pkg == outdated[idx]
           mode == Mode(args)
       IN  \/ /\ mode = "raw"
              /\ log' = Append(log, RawLine(pkg))
              /\ idx' = idx + 1
              /\ UNCHANGED <<pc, packages, all_ok, returned>>
           \/ /\ mode = "auto"
              /\ packages' = Append(packages, pkg)
              /\ all_ok' = FALSE
              /\ idx' = idx + 1
              /\ UNCHANGED <<pc, log, returned>>
           \/ /\ mode = "plain"
              /\ log' = Append(log, NoticeLine(pkg))
              /\ all_ok' = FALSE
              /\ idx' = idx + 1
              /\ UNCHANGED <<pc, packages, returned>>
           \/ /\ mode = "interactive"
              /\ cached_answer # NoAnswer
              /\ log' = Append(log, NoticeLine(pkg))
              /\ returned' = Append(returned, cached_answer)
              /\ packages' = IF Queues(cached_answer)
                             THEN Append(packages, pkg) ELSE packages
              /\ all_ok' = FALSE
              /\ idx' = idx + 1
              /\ UNCHANGED pc
           \/ /\ mode = "interactive"
              /\ cached_answer = NoAnswer
              /\ log' = Append(log, NoticeLine(pkg))
              /\ pc' = "ask"
              /\ UNCHANGED <<idx, packages, all_ok, returned>>
    /\ UNCHANGED <<argv, env, args, unknown, popen_calls, list_rc, install_rc,
                   outdated, cached_answer, reads, last_input, typed, prompted,
                   error, exit_code>>

\* one input() of InteractiveAsker.ask; a valid answer ends the call and the
\* iteration of the report loop that made it
AskInput ==
    /\ pc = "ask"
    /\ reads < MaxReads
    /\ \E raw \in UserInputs :
          LET answer == Normalise(raw)
          IN  /\ reads' = reads + 1
              /\ last_input' = raw
              /\ prompted' = prompted \cup {idx}
              /\ IF answer \in ValidAnswers
                 THEN /\ cached_answer' = NextCached(cached_answer, answer)
                      /\ returned' = Append(returned, answer)
                      /\ typed' = Append(typed, [index |-> idx, answer |-> answer])
                      /\ packages' = IF Queues(answer)
                                     THEN Append(packages, outdated[idx])
                                     ELSE packages
                      /\ all_ok' = FALSE
                      /\ idx' = idx + 1
                      /\ pc' = "loop"
                 ELSE UNCHANGED <<cached_answer, returned, typed, packages,
                                  all_ok, idx, pc>>
    /\ UNCHANGED <<argv, env, args, unknown, popen_calls, list_rc, install_rc,
                   outdated, log, error, exit_code>>

\* after the loop: the up-to-date line, or update_packages starts pip install
Finish ==
    /\ pc = "loop"
    /\ idx > Len(outdated)
    /\ IF ShowUpToDate(all_ok, args.raw)
       THEN /\ log' = Append(log, UpToDateLine)
            /\ pc' = "done"
            /\ exit_code' = <<0>>
            /\ UNCHANGED popen_calls
       ELSE IF packages # <<>>
       THEN /\ popen_calls' = Append(popen_calls,
                [kind |-> "install", shell |-> FALSE,
                 command |-> InstallCommand(env.version_info, packages)])
            /\ pc' = "installing"
            /\ UNCHANGED <<log, exit_code>>
       ELSE /\ pc' = "done"
            /\ exit_code' = <<0>>
            /\ UNCHANGED <<log, popen_calls>>
    /\ UNCHANGED <<argv, env, args, unknown, list_rc, install_rc, outdated,
                   idx, packages, all_ok, cached_answer, returned, reads,
                   last_input, typed, prompted, error>>

\* subprocess.call returns; its value is dropped and main returns
InstallExit ==
    /\ pc = "installing"
    /\ \E rc \in ReturnCodes : install_rc' = <<rc>>
    /\ pc' = "done"
    /\ exit_code' = <<0>>
    /\ UNCHANGED <<argv, env, args, unknown, popen_calls, list_rc, outdated,
                   idx, packages, all_ok, log, cached_answer, returned, reads,
                   last_input, typed, prompted, error>>

\* KeyboardInterrupt while blocked on a subprocess or on input()
Interrupt ==
    /\ pc \in {"listing", "ask", "installing"}
    /\ pc' = "aborted"
    /\ error' = "KeyboardInterrupt"
    /\ exit_code' = <<0>>
    /\ UNCHANGED <<argv, env, args, unknown, popen_calls, list_rc, install_rc,
                   outdated, idx, packages, all_ok, log, cached_answer,
                   returned, reads, last_input, typed, prompted>>

Next ==
    \/ ParseArgs
    \/ StartList
    \/ ListExit
    \/ Report
    \/ AskInput
    \/ Finish
    \/ InstallExit
    \/ Interrupt

Spec == Init /\ [][Next]_vars

(* ------------------------------ type check ---------------------------- *)
TypeOK ==
    /\ pc \in {"start", "parsed", "listing", "loop", "ask", "installing",
               "done", "error", "aborted"}
    /\ idx \in 1..(Len(outdated) + 1)
    /\ reads \in 0..MaxReads
    /\ cached_answer \in {NoAnswer, "a", "q"}
    /\ Len(exit_code) <= 1

(* --------------------------- derived views ---------------------------- *)
InstallCalls == SelectSeq(popen_calls, LAMBDA c : c.kind = "install")

ListCalls == SelectSeq(popen_calls, LAMBDA c : c.kind = "list")

\* the report loop has run to its end
ReportLoopEnded ==
    \/ pc \in {"installing", "done"}
    \/ pc = "aborted" /\ InstallCalls # <<>>

\* the last n words of an install command are the pinned specs of pkgs
InstallsExactly(call, pkgs) ==
    LET cmd == call.command
        n == Len(pkgs)
    IN  /\ Len(cmd) > n
        /\ cmd[Len(cmd) - n] = <<"install">>
        /\ \A k \in 1..n :
              cmd[Len(cmd) - n + k] =
                  <<pkgs[k].name, "==", pkgs[k].latest_version>>

ExitedNonZero == exit_code # <<>> /\ exit_code[1] # 0

(* ------------------------------- claims ------------------------------- *)

\* C1: "Everything up-to-date" is emitted exactly when the fetched list is
\* empty and raw mode is off; it is then the only line and nothing is
\* installed; with an outdated package, or in raw mode, it is never emitted.
C1_UpToDateExactly ==
    /\ UpToDateLine \in Range(log) =>
          /\ pc = "done"
          /\ list_rc = <<0>>
          /\ outdated = <<>>
          /\ ~HasOption(argv, OptRaw)
    /\ (ReportLoopEnded /\ outdated = <<>> /\ ~HasOption(argv, OptRaw)) =>
          /\ log = <<UpToDateLine>>
          /\ InstallCalls = <<>>

C1_Witness ==
    /\ pc = "done"
    /\ outdated = <<>>
    /\ HasOption(argv, OptAuto)
    /\ log = <<UpToDateLine>>
    /\ Len(popen_calls) = 1

\* C2: every unrecognized flag of the command line appears, in the original
\* order, in the list command and in every install command.
UnrecognizedFlags ==
    SelectSeq(argv, LAMBDA t : t \notin KnownOptions /\ StartsWith(t, <<"-">>))

C2_FlagsForwardedToBoth ==
    \A k \in 1..Len(popen_calls) :
        IF popen_calls[k].shell
        THEN IsInfix(Join(<<" ">>, UnrecognizedFlags), popen_calls[k].command)
        ELSE IsInfix(UnrecognizedFlags, popen_calls[k].command)

\* C3: an unrecognized option and the value token that follows it both reach
\* the list command, adjacent and in order.
C3_OptionValueReachesList ==
    \A k \in 1..Len(ListCalls) :
        \A i \in 1..(Len(argv) - 1) :
            ( /\ argv[i] \notin KnownOptions
              /\ StartsWith(argv[i], <<"-">>)
              /\ argv[i + 1] \notin KnownOptions
              /\ ~StartsWith(argv[i + 1], <<"-">>) )
            => IsInfix(argv[i] \o <<" ">> \o argv[i + 1], ListCalls[k].command)

\* C4: in auto mode with --continue-on-fail and two outdated packages, a run
\* that ends has started one install per queued package, in fetch order.
C4_OneInstallPerPackage ==
    ( /\ pc = "done"
      /\ HasOption(argv, OptAuto)
      /\ ~HasOption(argv, OptRaw)
      /\ TokContinueOnFail \in Range(argv)
      /\ Len(outdated) = 2 )
    => /\ Len(InstallCalls) = 2
       /\ \A k \in 1..2 :
             LET cmd == InstallCalls[k].command
             IN  cmd[Len(cmd)][1] = outdated[k].name

\* C5: in auto mode without raw, every outdated package is queued in fetch
\* order and all are handed to exactly one install started after the last
\* package was processed; no notice is emitted and nothing is asked.
AutoRun ==
    /\ pc # "start"
    /\ HasOption(argv, OptAuto)
    /\ ~HasOption(argv, OptRaw)
    /\ outdated # <<>>

C6_CachedAnswerLocks ==
    [][ /\ cached_answer' # cached_answer =>
              /\ cached_answer = NoAnswer
              /\ cached_answer' \in {"a", "q"}
              /\ reads' = reads + 1
              /\ Normalise(last_input') = cached_answer'
        /\ cached_answer # NoAnswer =>
              /\ cached_answer' = cached_answer
              /\ reads' = reads
              /\ returned' # returned =>
                    returned' = Append(returned, cached_answer)
      ]_vars

C6_Witness ==
    /\ cached_answer = "q"
    /\ reads = 3
    /\ returned = <<"y", "q", "q">>

\* C7: the exit status of a run that installed is non-zero exactly when the
\* install command exited non-zero.
C7_InstallFailureSurfaced ==
    (pc = "done" /\ install_rc # <<>>) =>
        (exit_code[1] # 0 <=> install_rc[1] # 0)

\* C8: with --raw and --interactive together the run ends in error with a
\* non-zero exit; no subprocess starts, no line is emitted, nothing is asked.
C8_ConflictBeforeSubprocess ==
    ( /\ pc # "start"
      /\ HasOption(argv, OptRaw)
      /\ HasOption(argv, OptInteractive) )
    => /\ pc = "error"
       /\ error = "SystemExit"
       /\ ExitedNonZero
       /\ popen_calls = <<>>
       /\ log = <<>>
       /\ reads = 0

C8_Witness ==
    /\ pc = "error"
    /\ error = "SystemExit"
    /\ HasOption(argv, OptAuto)
    /\ Len(argv) = 3

\* C9: a non-zero exit of the list subprocess ends the run with an error:
\* no line is emitted, nothing is asked and nothing is installed.
C9_ListFailureTerminates ==
    (list_rc # <<>> /\ list_rc[1] # 0) =>
        /\ pc = "error"
        /\ error = "CalledProcessError"
        /\ ExitedNonZero
        /\ log = <<>>
        /\ reads = 0
        /\ InstallCalls = <<>>
        /\ packages = <<>>

C9_Witness ==
    /\ list_rc = <<-1>>
    /\ pc = "error"
    /\ TokContinueOnFail \in Range(argv)
    /\ Len(popen_calls) = 1

\* C10: in interactive mode the installer gets exactly, in fetch order, the
\* packages answered Yes before any All or Quit, the package answered All
\* and every package after it; nothing is queued from a Quit on, and no
\* package after an All or a Quit is prompted for.
InteractiveRun ==
    /\ pc # "start"
    /\ HasOption(argv, OptInteractive)
    /\ ~HasOption(argv, OptRaw)
    /\ ~HasOption(argv, OptAuto)

\* position in typed of the first All or Quit, 0 when there is none
FirstLock ==
    LET locks == {j \in 1..Len(typed) : typed[j].answer \in {"a", "q"}}
    IN  IF locks = {} THEN 0
        ELSE CHOOSE j \in locks : \A k \in locks : j <= k

Chosen(i) ==
    \/ \E j \in 1..Len(typed) :
          /\ typed[j].index = i
          /\ typed[j].answer = "y"
          /\ (FirstLock = 0 \/ j < FirstLock)
    \/ /\ FirstLock # 0
       /\ typed[FirstLock].answer = "a"
       /\ i >= typed[FirstLock].index

ExpectedQueue ==
    LET chosen == SelectSeq([i \in 1..(idx - 1) |-> i], Chosen)
    IN  [k \in 1..Len(chosen) |-> outdated[chosen[k]]]

C10_InteractiveSelection ==
    InteractiveRun =>
        /\ packages = ExpectedQueue
        /\ FirstLock # 0 =>
              /\ FirstLock = Len(typed)
              /\ \A i \in prompted : i <= typed[FirstLock].index
        /\ Len(InstallCalls) <= 1
        /\ InstallCalls # <<>> =>
              /\ idx > Len(outdated)
              /\ InstallsExactly(InstallCalls[1], ExpectedQueue)
        /\ ReportLoopEnded =>
              (InstallCalls # <<>> <=> ExpectedQueue # <<>>)

C10_Witness ==
    /\ pc = "done"
    /\ InteractiveRun
    /\ Len(outdated) = 3
    /\ typed = << [index |-> 1, answer |-> "y"], [index |-> 2, answer |-> "q"] >>
    /\ packages = <<outdated[1]>>
    /\ Len(InstallCalls) = 1

=============================================================================
